---------------------------- MODULE Spec2Model ----------------------------
(***************************************************************************)
(* CCOM_Downloader: the interactive map widget (src/map_widget.py) and the  *)
(* window that hosts it (src/main.py).                                      *)
(*                                                                          *)
(* World coordinates are Python floats.  They are modelled as binary        *)
(* floating-point numbers <<m, e>> (value m * 2^e) with a MantissaBits-bit  *)
(* mantissa and round-to-nearest-even after every operation, which is what  *)
(* IEEE-754 arithmetic does with 53 bits.                                   *)
(***************************************************************************)
EXTENDS Integers, Sequences, FiniteSets, TLC

\* Python's None, for values that are otherwise tuples.
None == <<>>
ZeroDivisionError == <<"ZeroDivisionError">>

(***************************************************************************)
(* Bounds of the model.                                                     *)
(***************************************************************************)
MantissaBits == 8      \* bits of a float mantissa (53 for a Python float)
WidgetW == 4           \* self.width() of the MapWidget, in pixels
WidgetH == 3           \* self.height() of the MapWidget, in pixels
MaxEvents == 2         \* input events (mouse, controls) in one run
MaxClicks == 3         \* events of the download controls in one run
MaxLoads == 2          \* tile fetches started in one run
MaxDragEvents == 3     \* input events in one run of SpecOneShot

(***************************************************************************)
(* Python float arithmetic.                                                 *)
(***************************************************************************)
\* value is computed once and named by the parameter of Rest.
Bind(value, Rest(_)) == Rest(value)

Abs(n) == IF n < 0 THEN -n ELSE n

Sgn(n) == IF n < 0 THEN -1 ELSE 1

RECURSIVE BitLen(_)
BitLen(n) == IF n = 0 THEN 0 ELSE 1 + BitLen(n \div 2)

\* a / d rounded to the nearest integer, ties to even (a >= 0, d > 0).
RoundHalfEven(a, d) ==
    LET q == a \div d
        r == a % d
    IN  IF 2 * r > d \/ (2 * r = d /\ q % 2 = 1) THEN q + 1 ELSE q

\* The float nearest to n * 2^e (ties to even), in canonical form.
FRound(n, e) ==
    Bind(BitLen(Abs(n)), LAMBDA L :
        IF n = 0 THEN <<0, 0>>
        ELSE IF L <= MantissaBits
        THEN <<n * 2^(MantissaBits - L), e - (MantissaBits - L)>>
        ELSE Bind(RoundHalfEven(Abs(n), 2^(L - MantissaBits)), LAMBDA q :
                 IF q = 2^MantissaBits
                 THEN <<Sgn(n) * 2^(MantissaBits - 1), e + (L - MantissaBits) + 1>>
                 ELSE <<Sgn(n) * q, e + (L - MantissaBits)>>))

FromInt(i) == FRound(i, 0)
FNeg(a) == <<-a[1], a[2]>>

FAdd(a, b) ==
    IF a[1] = 0 THEN b
    ELSE IF b[1] = 0 THEN a
    ELSE LET e  == IF a[2] < b[2] THEN a[2] ELSE b[2]
             da == a[2] - e
             db == b[2] - e
         IN  IF da > MantissaBits + 2 THEN a
             ELSE IF db > MantissaBits + 2 THEN b
             ELSE FRound(a[1] * 2^da + b[1] * 2^db, e)

FSub(a, b) == FAdd(a, FNeg(b))
FMul(a, b) == FRound(a[1] * b[1], a[2] + b[2])

\* a / b for b # 0 (Python raises ZeroDivisionError for b = 0: the callers
\* test FIsZero first).
FDiv(a, b) ==
    LET N == Abs(a[1]) * 2^(MantissaBits + 1)
        q == N \div Abs(b[1])
        r == N % Abs(b[1])
        n == 2 * q + (IF r = 0 THEN 0 ELSE 1)
    IN  FRound(Sgn(a[1]) * Sgn(b[1]) * n, a[2] - b[2] - MantissaBits - 2)

FIsZero(a) == a[1] = 0
FLt(a, b) == FSub(a, b)[1] < 0
FLe(a, b) == FSub(a, b)[1] <= 0
FMin(a, b) == IF FLt(b, a) THEN b ELSE a
FMax(a, b) == IF FLt(a, b) THEN b ELSE a

\* int(x): truncation toward zero.
FInt(a) ==
    IF a[2] >= 0 THEN a[1] * 2^a[2]
    ELSE IF -a[2] >= MantissaBits THEN 0
    ELSE Sgn(a[1]) * (Abs(a[1]) \div 2^(-a[2]))

FBox(x0, y0, x1, y1) == <<FromInt(x0), FromInt(y0), FromInt(x1), FromInt(y1)>>


(***************************************************************************)
(* Qt value types.  A QPoint is <<x, y>>, a QRect is <<x1, y1, x2, y2>>     *)
(* (corners inclusive), a QPixmap is its size; bbox and id are the request  *)
(* that produced the image, kept to state the claims.                       *)
(***************************************************************************)
NullPixmap == [w |-> 0, h |-> 0, bbox |-> None, id |-> 0]
Pixmap(w, h, bbox, id) == [w |-> w, h |-> h, bbox |-> bbox, id |-> id]
isNull(pixmap) == pixmap.w = 0 \/ pixmap.h = 0

\* Python truth value of a QPoint or None: PyQt's QPoint.__bool__ is
\* "not isNull()", so QPoint(0, 0) is false like None.
Truthy(point) == point # None /\ point # <<0, 0>>

\* C++ integer division (truncation toward zero).
CDiv(a, b) == Sgn(a) * Sgn(b) * (Abs(a) \div Abs(b))

QRectOf(w, h) == <<0, 0, w - 1, h - 1>>
rectCenter(r) == <<CDiv(r[1] + r[3], 2), CDiv(r[2] + r[4], 2)>>
moveCenter(r, p) ==
    LET w == r[3] - r[1]
        h == r[4] - r[2]
    IN  <<p[1] - CDiv(w, 2), p[2] - CDiv(h, 2),
          p[1] - CDiv(w, 2) + w, p[2] - CDiv(h, 2) + h>>
rectWidth(r) == r[3] - r[1] + 1
rectHeight(r) == r[4] - r[2] + 1
rectContains(r, p) == r[1] <= p[1] /\ p[1] <= r[3] /\ r[2] <= p[2] /\ p[2] <= r[4]
rectIsNull(r) == r[3] = r[1] - 1 /\ r[4] = r[2] - 1

\* current_pixmap.rect() moved to the centre of the widget.
pixmap_rect(w) ==
    moveCenter(QRectOf(w.current_pixmap.w, w.current_pixmap.h),
               rectCenter(QRectOf(WidgetW, WidgetH)))

(***************************************************************************)
(* Coordinate mapper (MapWidget).  w is the MapWidget object.               *)
(***************************************************************************)
screen_to_world(w, point) ==
    IF isNull(w.current_pixmap) THEN None
    ELSE LET r == pixmap_rect(w) IN
         IF ~rectContains(r, point) THEN None
         ELSE LET rel_x == FDiv(FromInt(point[1] - r[1]), FromInt(rectWidth(r)))
                  rel_y == FDiv(FromInt(point[2] - r[2]), FromInt(rectHeight(r)))
                  xmin  == w.extent[1]
                  ymin  == w.extent[2]
                  xmax  == w.extent[3]
                  ymax  == w.extent[4]
              IN  <<FAdd(xmin, FMul(rel_x, FSub(xmax, xmin))),
                    FSub(ymax, FMul(rel_y, FSub(ymax, ymin)))>>

\* ZeroDivisionError when the extent has no width or no height.
world_to_screen(w, world_x, world_y) ==
    IF isNull(w.current_pixmap) THEN None
    ELSE LET r    == pixmap_rect(w)
             xmin == w.extent[1]
             ymin == w.extent[2]
             xmax == w.extent[3]
             ymax == w.extent[4]
         IN  IF FIsZero(FSub(xmax, xmin)) \/ FIsZero(FSub(ymax, ymin))
             THEN ZeroDivisionError
             ELSE LET rel_x == FDiv(FSub(world_x, xmin), FSub(xmax, xmin))
                      rel_y == FDiv(FSub(ymax, world_y), FSub(ymax, ymin))
                      screen_x == FAdd(FromInt(r[1]), FMul(rel_x, FromInt(rectWidth(r))))
                      screen_y == FAdd(FromInt(r[2]), FMul(rel_y, FromInt(rectHeight(r))))
                  IN  <<FInt(screen_x), FInt(screen_y)>>

get_selection_bbox(w) ==
    IF ~Truthy(w.selection_start) \/ ~Truthy(w.selection_end) THEN None
    ELSE Bind(screen_to_world(w, w.selection_start), LAMBDA start_world :
         Bind(screen_to_world(w, w.selection_end), LAMBDA end_world :
             IF start_world = None \/ end_world = None THEN None
             ELSE <<FMin(start_world[1], end_world[1]),
                    FMin(start_world[2], end_world[2]),
                    FMax(start_world[1], end_world[1]),
                    FMax(start_world[2], end_world[2])>>))

world_bbox_to_screen_rect(w, bbox_world) ==
    IF bbox_world = None THEN None
    ELSE Bind(world_to_screen(w, bbox_world[1], bbox_world[4]), LAMBDA top_left :
         Bind(world_to_screen(w, bbox_world[3], bbox_world[2]), LAMBDA bottom_right :
             IF top_left = ZeroDivisionError \/ bottom_right = ZeroDivisionError
             THEN ZeroDivisionError
             ELSE IF Truthy(top_left) /\ Truthy(bottom_right)
             THEN <<top_left[1], top_left[2], bottom_right[1], bottom_right[2]>>
             ELSE None))


(***************************************************************************)
(* State.                                                                   *)
(*   map_widget  the MapWidget object the window's map_widget refers to     *)
(*   window      the MainWindow object's other fields                       *)
(*   threads     the QThreads that are running                              *)
(*   queue       signals posted to the GUI thread (queued connections),     *)
(*               delivered in the order they were posted                    *)
(*   timers      pending QTimer.singleShot(..., load_map) calls             *)
(*   aborted     an exception left a slot: PyQt6 ends the process           *)
(*   nTile, nBasemap   loaders started so far (they number the loaders)     *)
(*   emitted     the MapWidget signals emitted by the last handler          *)
(*   last        the last handler that ran                                  *)
(*   canvas      what the last paintEvent drew                              *)
(*   events      mouse, map-control and network events handled so far       *)
(*   clicks      events of the download controls handled so far             *)
(*   buttons     the mouse buttons held down                                *)
(*   call        the last application of a coordinate function (SpecCoord)  *)
(*   build       the run of the macOS build script (SpecBuild)              *)
(***************************************************************************)
VARIABLES map_widget, window, threads, queue, timers, aborted,
          nTile, nBasemap, emitted, last, canvas, events, clicks, buttons,
          call, build

vars == <<map_widget, window, threads, queue, timers, aborted,
          nTile, nBasemap, emitted, last, canvas, events, clicks, buttons,
          call, build>>

\* The whole state as one value: a handler is an operator from S to S.
S == [mw |-> map_widget, win |-> window, threads |-> threads, queue |-> queue,
      timers |-> timers, aborted |-> aborted, nTile |-> nTile,
      nBasemap |-> nBasemap, emitted |-> emitted]

Becomes(s) ==
    /\ map_widget' = s.mw
    /\ window' = s.win
    /\ threads' = s.threads
    /\ queue' = s.queue
    /\ timers' = s.timers
    /\ aborted' = s.aborted
    /\ nTile' = s.nTile
    /\ nBasemap' = s.nBasemap
    /\ emitted' = s.emitted

ZeroBox == FBox(0, 0, 0, 0)
IsZeroBox(b) == FIsZero(b[1]) /\ FIsZero(b[2]) /\ FIsZero(b[3]) /\ FIsZero(b[4])

(***************************************************************************)
(* Loader threads and queued signals.                                       *)
(***************************************************************************)
Event(sig, kind, id, pixmap, bbox) ==
    [sig |-> sig, kind |-> kind, id |-> id, pixmap |-> pixmap, bbox |-> bbox]

post(s, ev) == [s EXCEPT !.queue = Append(@, ev)]

isRunning(s, kind, id) == \E t \in s.threads : t.kind = kind /\ t.id = id

\* QThread.terminate() followed by wait(1000): the thread stops running and,
\* as any QThread that stops, emits finished().
terminate(s, kind, id) ==
    post([s EXCEPT !.threads = {t \in @ : ~(t.kind = kind /\ t.id = id)}],
         Event("finished", kind, 0, NullPixmap, None))

start(s, kind, id, bbox) ==
    [s EXCEPT !.threads = @ \cup {[kind |-> kind, id |-> id, bbox |-> bbox,
                                   size |-> <<WidgetW, WidgetH>>]}]

(***************************************************************************)
(* MapWidget.                                                               *)
(***************************************************************************)
MapWidget__init__(initial_extent, show_basemap) ==
    [extent |-> initial_extent,
     current_pixmap |-> NullPixmap,
     basemap_pixmap |-> NullPixmap,
     show_basemap |-> show_basemap,
     bathymetry_opacity |-> 100,
     selection_start |-> None,
     selection_end |-> None,
     is_selecting |-> FALSE,
     is_panning |-> FALSE,
     pan_start |-> None,
     map_loaded |-> FALSE,
     _loading |-> FALSE,
     selected_bbox_world |-> None,
     loader |-> 0,
     basemap_loader |-> 0]

\* if self.loader and self.loader.isRunning(): terminate(); wait(1000)
stop(s, kind, id) ==
    IF id # 0 /\ isRunning(s, kind, id) THEN terminate(s, kind, id) ELSE s

start_basemap(s) ==
    IF s.mw.show_basemap
    THEN [start(s, "basemap", s.nBasemap + 1, s.mw.extent)
            EXCEPT !.mw.basemap_loader = s.nBasemap + 1,
                   !.nBasemap = s.nBasemap + 1]
    ELSE s

start_tile(s) ==
    [start(s, "tile", s.nTile + 1, s.mw.extent)
        EXCEPT !.mw.loader = s.nTile + 1,
               !.nTile = s.nTile + 1,
               !.mw.map_loaded = TRUE]

\* A load_map that leaves the loaders of the previous call running.
load_map_keeps_loaders(s) ==
    IF s.mw._loading THEN s
    ELSE start_tile(start_basemap([s EXCEPT !.mw._loading = TRUE]))

\* A load_map that stops the running loaders before it tests the lock.
load_map_stops_first(s) ==
    IF s.mw._loading
    THEN stop(stop(s, "tile", s.mw.loader), "basemap", s.mw.basemap_loader)
    ELSE start_tile(start_basemap(
             stop(stop([s EXCEPT !.mw._loading = TRUE], "tile", s.mw.loader),
                  "basemap", s.mw.basemap_loader)))

load_map(s) ==
    IF s.mw._loading THEN s
    ELSE start_tile(start_basemap(
             stop(stop([s EXCEPT !.mw._loading = TRUE], "tile", s.mw.loader),
                  "basemap", s.mw.basemap_loader)))

\* QSize.scaled(size, KeepAspectRatio) of a pixmap.
scaled(pixmap, w, h) ==
    LET rw == CDiv(h * pixmap.w, pixmap.h)
    IN  IF rw <= w
        THEN [pixmap EXCEPT !.w = rw, !.h = h]
        ELSE [pixmap EXCEPT !.w = w, !.h = CDiv(w * pixmap.h, pixmap.w)]

on_basemap_loaded(s, pixmap) ==
    IF ~isNull(pixmap)
    THEN IF WidgetW = pixmap.w /\ WidgetH = pixmap.h
         THEN [s EXCEPT !.mw.basemap_pixmap = pixmap]
         ELSE [s EXCEPT !.mw.basemap_pixmap = scaled(pixmap, WidgetW, WidgetH)]
    ELSE s

on_loader_finished(s) == s

\* An on_tile_loaded that answers a failed fetch with another load_map.
on_tile_loaded_retry(s, pixmap, bbox) ==
    IF ~isNull(pixmap)
    THEN [s EXCEPT !.mw.current_pixmap = scaled(pixmap, WidgetW, WidgetH),
                   !.mw.extent = bbox]
    ELSE load_map([s EXCEPT !.mw._loading = FALSE])

\* An on_tile_loaded that shows whatever pixmap it receives.
on_tile_loaded_shows_null(s, pixmap, bbox) ==
    [s EXCEPT !.mw.current_pixmap = pixmap, !.mw.extent = bbox]

on_tile_loaded(s, pixmap, bbox) ==
    IF ~isNull(pixmap)
    THEN IF WidgetW = pixmap.w /\ WidgetH = pixmap.h
         THEN [s EXCEPT !.mw.current_pixmap = pixmap, !.mw.extent = bbox]
         ELSE [s EXCEPT !.mw.current_pixmap = scaled(pixmap, WidgetW, WidgetH),
                        !.mw.extent = bbox]
    ELSE s

\* The widget has been resized to WidgetW x WidgetH.
resizeEvent(w) ==
    IF ~isNull(w.current_pixmap)
    THEN [w EXCEPT !.current_pixmap = scaled(@, WidgetW, WidgetH)]
    ELSE w

(***************************************************************************)
(* MainWindow: the slots connected to the MapWidget's signals.              *)
(***************************************************************************)
max_size == 14000

MainWindow__init__(service_extent) ==
    [service_extent |-> service_extent,
     selected_bbox |-> None,                 \* the attribute is not set yet
     selectionChanged_connected |-> TRUE,    \* to on_selection_changed
     selectionCompleted_connected |-> TRUE,  \* to on_selection_completed
     basemap_checkbox |-> TRUE,
     opacity_slider |-> 60,
     download_btn |-> FALSE,
     progress_bar |-> 0,
     status_label |-> "Ready",
     output_path |-> "",
     cell_size |-> 4,
     downloader |-> None,
     downloader_running |-> FALSE,
     downloaders |-> 0,                      \* downloader threads running
     service_loader |-> "running",
     map_widget |-> "MapWidget"]             \* or "None"

HasWidget(s) == s.win.map_widget # "None"

on_selection_changed(s, bbox) ==
    IF IsZeroBox(bbox)
    THEN [s EXCEPT !.win.download_btn = FALSE]
    ELSE [s EXCEPT !.win.download_btn = TRUE]

\* The extent of the widget's aspect ratio around the padded selection.
zoom_extent(padded_xmin, padded_ymin, padded_xmax, padded_ymax, padded_width, padded_height, widget_aspect) ==
    Bind(FDiv(padded_width, padded_height), LAMBDA padded_aspect :
    Bind(FDiv(FAdd(padded_xmin, padded_xmax), FromInt(2)), LAMBDA center_x :
    Bind(FDiv(FAdd(padded_ymin, padded_ymax), FromInt(2)), LAMBDA center_y :
    Bind(IF FLt(widget_aspect, padded_aspect)
         THEN <<padded_width, FDiv(padded_width, widget_aspect)>>
         ELSE <<FMul(padded_height, widget_aspect), padded_height>>,
         LAMBDA new :           \* <<new_width, new_height>>
             <<FSub(center_x, FDiv(new[1], FromInt(2))),
               FSub(center_y, FDiv(new[2], FromInt(2))),
               FAdd(center_x, FDiv(new[1], FromInt(2))),
               FAdd(center_y, FDiv(new[2], FromInt(2)))>>))))

zoom_to_selection(s, bbox) ==
    IF ~HasWidget(s) THEN s ELSE
    Bind(FMul(FSub(bbox[3], bbox[1]), FDiv(FromInt(1), FromInt(20))), LAMBDA padding_x :
    Bind(FMul(FSub(bbox[4], bbox[2]), FDiv(FromInt(1), FromInt(20))), LAMBDA padding_y :
    Bind(FSub(bbox[1], padding_x), LAMBDA padded_xmin :
    Bind(FSub(bbox[2], padding_y), LAMBDA padded_ymin :
    Bind(FAdd(bbox[3], padding_x), LAMBDA padded_xmax :
    Bind(FAdd(bbox[4], padding_y), LAMBDA padded_ymax :
    Bind(FSub(padded_xmax, padded_xmin), LAMBDA padded_width :
    Bind(FSub(padded_ymax, padded_ymin), LAMBDA padded_height :
        IF FIsZero(padded_height)
        THEN \* padded_width / padded_height raises ZeroDivisionError
             [s EXCEPT !.mw.selected_bbox_world = bbox, !.aborted = TRUE]
        ELSE load_map([s EXCEPT !.mw.selected_bbox_world = bbox,
                                !.mw.extent =
                                    zoom_extent(padded_xmin, padded_ymin,
                                                padded_xmax, padded_ymax,
                                                padded_width, padded_height,
                                                FDiv(FromInt(WidgetW),
                                                     FromInt(WidgetH)))])))))))))

on_selection_completed(s, bbox) ==
    IF ~IsZeroBox(bbox)
    THEN Bind(zoom_to_selection(
                  [s EXCEPT !.win.selected_bbox = bbox,
                            !.win.selectionChanged_connected = FALSE], bbox),
              LAMBDA s2 :
                  IF s2.aborted THEN s2
                  ELSE [s2 EXCEPT !.win.selectionChanged_connected = TRUE,
                                  !.win.download_btn = TRUE])
    ELSE s

\* signal.emit(...): the connected slots run before emit returns.  An entry
\* of emitted is <<signal, bbox, selected_bbox_world when it was emitted>>.
selectionChanged_emit(s, bbox) ==
    LET s1 == [s EXCEPT !.emitted = Append(@, <<"selectionChanged", bbox,
                                                 s.mw.selected_bbox_world>>)]
    IN  IF s1.win.selectionChanged_connected
        THEN on_selection_changed(s1, bbox) ELSE s1

selectionCompleted_emit(s, bbox) ==
    on_selection_completed(
        [s EXCEPT !.emitted = Append(@, <<"selectionCompleted", bbox,
                                         s.mw.selected_bbox_world>>)], bbox)

(***************************************************************************)
(* MapWidget: selection, panning, zooming.                                  *)
(***************************************************************************)
clear_selection(s) ==
    selectionChanged_emit(
        [s EXCEPT !.mw.selection_start = None,
                  !.mw.selection_end = None,
                  !.mw.is_selecting = FALSE,
                  !.mw.selected_bbox_world = None],
        ZeroBox)

mousePressEvent(s, button, pos) ==
    IF button = "LeftButton"
    THEN [clear_selection(s) EXCEPT !.mw.selection_start = pos,
                                    !.mw.selection_end = pos,
                                    !.mw.is_selecting = TRUE]
    ELSE IF button = "MiddleButton"
    THEN [s EXCEPT !.mw.is_panning = TRUE, !.mw.pan_start = pos]
    ELSE s

\* The pan branch of mouseMoveEvent: the extent moves by delta pixels.
pan(s, pos, delta, r) ==
    LET xmin == s.mw.extent[1]
        ymin == s.mw.extent[2]
        xmax == s.mw.extent[3]
        ymax == s.mw.extent[4]
    IN  Bind(FMul(FDiv(FromInt(-delta[1]), FromInt(rectWidth(r))),
                  FSub(xmax, xmin)), LAMBDA rel_delta_x :
        Bind(FMul(FDiv(FromInt(delta[2]), FromInt(rectHeight(r))),
                  FSub(ymax, ymin)), LAMBDA rel_delta_y :
            load_map(clear_selection(
                [s EXCEPT !.mw.extent = <<FAdd(xmin, rel_delta_x),
                                          FAdd(ymin, rel_delta_y),
                                          FAdd(xmax, rel_delta_x),
                                          FAdd(ymax, rel_delta_y)>>,
                          !.mw.pan_start = pos]))))

mouseMoveEvent(s, pos) ==
    IF s.mw.is_selecting
    THEN Bind(get_selection_bbox([s.mw EXCEPT !.selection_end = pos]), LAMBDA bbox :
             IF bbox # None
             THEN selectionChanged_emit([s EXCEPT !.mw.selection_end = pos], bbox)
             ELSE [s EXCEPT !.mw.selection_end = pos])
    ELSE IF s.mw.is_panning /\ Truthy(s.mw.pan_start)
    THEN IF ~rectIsNull(pixmap_rect(s.mw))
         THEN pan(s, pos,
                  <<pos[1] - s.mw.pan_start[1], pos[2] - s.mw.pan_start[2]>>,
                  pixmap_rect(s.mw))
         ELSE s
    ELSE s

\* A finish_selection that emits the signals before it stores the bbox.
finish_selection_stores_late(s) ==
    Bind(get_selection_bbox(s.mw), LAMBDA bbox :
    Bind(IF bbox # None
         THEN selectionCompleted_emit(selectionChanged_emit(s, bbox), bbox)
         ELSE s,
         LAMBDA s2 :
             IF s2.aborted THEN s2
             ELSE [s2 EXCEPT !.mw.selection_start = None,
                             !.mw.selection_end = None]))

\* The left-button branch of mouseReleaseEvent while selecting; s has
\* selection_end and is_selecting already assigned.
finish_selection(s) ==
    Bind(get_selection_bbox(s.mw), LAMBDA bbox :
    Bind(IF bbox # None
         THEN selectionCompleted_emit(
                  selectionChanged_emit(
                      [s EXCEPT !.mw.selected_bbox_world = bbox], bbox),
                  bbox)
         ELSE s,
         LAMBDA s2 :
             IF s2.aborted THEN s2
             ELSE [s2 EXCEPT !.mw.selection_start = None,
                             !.mw.selection_end = None]))

mouseReleaseEvent(s, button, pos) ==
    IF button = "LeftButton"
    THEN IF s.mw.is_selecting
         THEN finish_selection([s EXCEPT !.mw.selection_end = pos,
                                         !.mw.is_selecting = FALSE])
         ELSE IF s.mw.is_panning
         THEN [s EXCEPT !.mw.is_panning = FALSE, !.mw.pan_start = None]
         ELSE s
    ELSE IF button = "MiddleButton" /\ s.mw.is_panning
    THEN [s EXCEPT !.mw.is_panning = FALSE, !.mw.pan_start = None]
    ELSE s

\* up: event.angleDelta().y() > 0
\* The extent of the given size around world_pos.
zoom(s, world_pos, width, height) ==
    load_map(clear_selection(
        [s EXCEPT !.mw.extent = <<FSub(world_pos[1], FDiv(width, FromInt(2))),
                                  FSub(world_pos[2], FDiv(height, FromInt(2))),
                                  FAdd(world_pos[1], FDiv(width, FromInt(2))),
                                  FAdd(world_pos[2], FDiv(height, FromInt(2)))>>]))

wheelEvent(s, up) ==
    IF isNull(s.mw.current_pixmap) THEN s
    ELSE LET xmin == s.mw.extent[1]
             ymin == s.mw.extent[2]
             xmax == s.mw.extent[3]
             ymax == s.mw.extent[4]
         IN  Bind(screen_to_world(s.mw, <<WidgetW \div 2, WidgetH \div 2>>),
                  LAMBDA world :
             Bind(IF up THEN FDiv(FromInt(12), FromInt(10))
                  ELSE FDiv(FromInt(1), FDiv(FromInt(12), FromInt(10))),
                  LAMBDA zoom_factor :
                 zoom(s,
                      IF world = None
                      THEN <<FDiv(FAdd(xmin, xmax), FromInt(2)),
                             FDiv(FAdd(ymin, ymax), FromInt(2))>>
                      ELSE world,
                      FDiv(FSub(xmax, xmin), zoom_factor),
                      FDiv(FSub(ymax, ymin), zoom_factor))))

(***************************************************************************)
(* MainWindow: the handlers of the user controls and of the worker threads. *)
(***************************************************************************)
fit_to_extent(s) ==
    IF HasWidget(s)
    THEN load_map(clear_selection([s EXCEPT !.mw.extent = s.win.service_extent]))
    ELSE s

MainWindow_clear_selection(s) == IF HasWidget(s) THEN clear_selection(s) ELSE s

\* MapWidget(base_url, service_extent, raster_function=..., ...): Python
\* raises TypeError for a keyword that names no parameter of __init__.
MapWidget__init__params ==
    {"base_url", "initial_extent", "parent", "raster_function", "show_basemap"}

accepts(params, keywords) == keywords \subseteq params

\* The MapWidget is created when there is none; an exception raised while
\* it is created and wired is caught and leaves map_widget None.  show()
\* leads to showEvent, which schedules load_map, and trigger_map_load is
\* scheduled as well.
init_map_widget(s) ==
    IF s.win.service_extent = None THEN s
    ELSE IF HasWidget(s) THEN s
    ELSE IF ~accepts(MapWidget__init__params,
                     {"raster_function", "show_basemap", "show_hillshade"})
    THEN [s EXCEPT !.win.map_widget = "None"]
    ELSE [s EXCEPT !.mw = [MapWidget__init__(s.win.service_extent,
                                             s.win.basemap_checkbox)
                              EXCEPT !.bathymetry_opacity = s.win.opacity_slider],
                   !.win.map_widget = "MapWidget",
                   !.win.selectionChanged_connected = TRUE,
                   !.win.selectionCompleted_connected = TRUE,
                   !.timers = @ + 2]

load_service_info(s) ==
    [init_map_widget(s) EXCEPT !.win.service_loader = "running"]

on_service_info_loaded(s, extent) ==
    Bind(IF HasWidget(s)
         THEN [s EXCEPT !.win.service_extent = extent,
                        !.win.service_loader = "finished"]
         ELSE init_map_widget([s EXCEPT !.win.service_extent = extent,
                                        !.win.service_loader = "finished"]),
         LAMBDA s0 :
        IF ~HasWidget(s0) THEN s0
        ELSE IF ~s0.mw.map_loaded /\ ~s0.mw._loading
        THEN [s0 EXCEPT !.mw.extent = extent, !.mw.map_loaded = FALSE,
                        !.timers = @ + 1]
        ELSE [s0 EXCEPT !.mw.extent = extent])

on_service_info_error(s) == [s EXCEPT !.win.service_loader = "finished"]

\* win.basemap_checkbox: the state of the checkbox that sent stateChanged.
on_basemap_toggled(s, show_basemap) ==
    IF ~HasWidget(s) THEN [s EXCEPT !.win.basemap_checkbox = show_basemap]
    ELSE IF show_basemap
    THEN load_map([s EXCEPT !.win.basemap_checkbox = show_basemap,
                            !.mw.show_basemap = show_basemap])
    ELSE [s EXCEPT !.win.basemap_checkbox = show_basemap,
                   !.mw.show_basemap = show_basemap]

on_hillshade_toggled(s, show_hillshade) ==
    IF HasWidget(s) /\ show_hillshade THEN load_map(s) ELSE s

\* value: the slider's position, 0..100; the opacity is value / 100.0.
on_opacity_changed(s, value) ==
    IF HasWidget(s)
    THEN [s EXCEPT !.win.opacity_slider = value, !.mw.bathymetry_opacity = value]
    ELSE [s EXCEPT !.win.opacity_slider = value]

\* A start_download without the pixel-count threshold.
start_download_unchecked(s, typed) ==
    Bind(IF s.win.selected_bbox # None THEN s.win.selected_bbox
         ELSE IF HasWidget(s) THEN get_selection_bbox(s.mw)
         ELSE typed,
         LAMBDA bbox :
        IF bbox = None \/ s.win.output_path = "" THEN s
        ELSE [s EXCEPT !.win.download_btn = FALSE,
                       !.win.progress_bar = 0,
                       !.win.status_label = "Starting download...",
                       !.win.downloader =
                           <<bbox, s.win.output_path, s.win.cell_size>>,
                       !.win.downloader_running = TRUE,
                       !.win.downloaders = @ + 1])

\* typed: the bbox typed into the four coordinate fields (None when a field
\* is empty), read only when there is no map widget.
start_download(s, typed) ==
    Bind(IF s.win.selected_bbox # None THEN s.win.selected_bbox
         ELSE IF HasWidget(s) THEN get_selection_bbox(s.mw)
         ELSE typed,
         LAMBDA bbox :
        IF bbox = None THEN s
        ELSE IF s.win.output_path = "" THEN s
        ELSE LET cell_size     == FromInt(s.win.cell_size)
                 width_meters  == FSub(bbox[3], bbox[1])
                 height_meters == FSub(bbox[4], bbox[2])
                 pixels_width  == FInt(FDiv(width_meters, cell_size))
                 pixels_height == FInt(FDiv(height_meters, cell_size))
             IN  IF pixels_width > max_size \/ pixels_height > max_size THEN s
                 ELSE [s EXCEPT !.win.download_btn = FALSE,
                                !.win.progress_bar = 0,
                                !.win.status_label = "Starting download...",
                                !.win.downloader =
                                    <<bbox, s.win.output_path, s.win.cell_size>>,
                                !.win.downloader_running = TRUE,
                                !.win.downloaders = @ + 1])

on_status_update(s, message) == [s EXCEPT !.win.status_label = message]

\* Connected to the finished signal of each downloader: the thread that
\* emitted it has ended.
on_download_finished(s) ==
    [s EXCEPT !.win.status_label = "Download complete",
              !.win.download_btn = TRUE,
              !.win.downloaders = @ - 1,
              !.win.downloader_running = s.win.downloaders > 1]

on_download_error(s) ==
    [s EXCEPT !.win.status_label = "Error",
              !.win.download_btn = TRUE,
              !.win.downloaders = @ - 1,
              !.win.downloader_running = s.win.downloaders > 1]

(***************************************************************************)
(* MapWidget.paintEvent: the painter calls of one repaint, in order, each   *)
(* with the painter's opacity (in percent) at the time of the call.  The    *)
(* result is ZeroDivisionError when world_to_screen raises.                 *)
(***************************************************************************)
Draw(p, what) == [p EXCEPT !.ops = Append(@, <<what, p.opacity>>)]
setOpacity(p, value) == [p EXCEPT !.opacity = value]

\* Python truth value of a QRect: PyQt's QRect.__bool__ is isValid().
rectTruthy(r) == r # None /\ r[1] <= r[3] /\ r[2] <= r[4]

\* A paint that leaves the painter at the bathymetry opacity.
paint_no_reset(w, bbox_screen) ==
    LET p0 == [opacity |-> 100, ops |-> <<>>]
        p1 == IF w.show_basemap /\ ~isNull(w.basemap_pixmap)
              THEN Draw(p0, "basemap")
              ELSE Draw(p0, "background")
        p2 == IF ~isNull(w.current_pixmap)
              THEN Draw(setOpacity(p1, w.bathymetry_opacity), "bathymetry")
              ELSE IF ~w.show_basemap THEN Draw(p1, "placeholder")
              ELSE p1
        p3 == IF w.selected_bbox_world # None /\ rectTruthy(bbox_screen)
              THEN Draw(p2, "selected_bbox")
              ELSE p2
        p4 == IF Truthy(w.selection_start) /\ Truthy(w.selection_end)
              THEN Draw(p3, "selection_rect")
              ELSE p3
    IN  IF w.selected_bbox_world # None /\ bbox_screen = ZeroDivisionError
        THEN ZeroDivisionError
        ELSE p4.ops

\* The painter calls given bbox_screen, the screen rectangle of the
\* completed selection.
paint(w, bbox_screen) ==
    LET p0 == [opacity |-> 100, ops |-> <<>>]
        p1 == IF w.show_basemap /\ ~isNull(w.basemap_pixmap)
              THEN Draw(p0, "basemap")
              ELSE Draw(p0, "background")
        p2 == IF ~isNull(w.current_pixmap)
              THEN setOpacity(
                       Draw(setOpacity(p1, w.bathymetry_opacity), "bathymetry"),
                       100)
              ELSE IF ~w.show_basemap THEN Draw(p1, "placeholder")
              ELSE p1
        p3 == IF w.selected_bbox_world # None /\ rectTruthy(bbox_screen)
              THEN Draw(p2, "selected_bbox")
              ELSE p2
        p4 == IF Truthy(w.selection_start) /\ Truthy(w.selection_end)
              THEN Draw(p3, "selection_rect")
              ELSE p3
    IN  IF w.selected_bbox_world # None /\ bbox_screen = ZeroDivisionError
        THEN ZeroDivisionError
        ELSE p4.ops

paintEvent(w) == paint(w, world_bbox_to_screen_rect(w, w.selected_bbox_world))

(***************************************************************************)
(* Inputs.                                                                  *)
(***************************************************************************)
Buttons == {"LeftButton", "MiddleButton"}

\* Mouse positions.  A button goes down on the widget's corner (0, 0) or on
\* an inner pixel; the mouse moves and a button goes up on the inner pixel,
\* on the opposite corner or right of the widget (the mouse is grabbed while
\* a button is held).
PressPositions == {<<0, 0>>, <<1, 1>>}
MovePositions == {<<1, 1>>, <<WidgetW - 1, WidgetH - 1>>, <<WidgetW, 1>>}

DefaultExtent == FBox(0, 0, 131072, 98304)
ServiceExtents == {FBox(0, 0, 65536, 49152)}
SliderValues == {30, 100}
CellSizes == {4, 8, 16}

NoCall == [op |-> "none", args |-> <<>>, result |-> None]

(***************************************************************************)
(* The program: a MapWidget built by MapWidget.__init__ and held by a       *)
(* MainWindow as init_map_widget sets it up: the opacity is the slider's,   *)
(* the two signals are connected and the widget is shown, so that showEvent *)
(* has scheduled load_map.                                                  *)
(***************************************************************************)
opacity_slider == 60

\* op: the handler; button: of a mouse press or release; null: the pixmap a
\* loader emitted, or a slot received, was null.
Last(op, button, null) == [op |-> op, button |-> button, null |-> null]

Hosted ==
    /\ map_widget = [MapWidget__init__(DefaultExtent, TRUE)
                        EXCEPT !.bathymetry_opacity = opacity_slider]
    /\ window = MainWindow__init__(DefaultExtent)
    /\ threads = {}
    /\ queue = <<>>
    /\ timers = 1
    /\ aborted = FALSE
    /\ nTile = 0
    /\ nBasemap = 0
    /\ emitted = <<>>
    /\ last = Last("__init__", "NoButton", FALSE)
    /\ canvas = <<>>
    /\ events = 0
    /\ clicks = 0
    /\ buttons = {}
    /\ call = NoCall

Init == Hosted /\ build = None

\* The state a handler starts from.
Now == [S EXCEPT !.emitted = <<>>]

\* max: the number of input events in one run.
InputWithin(max, op, button, s) ==
    /\ ~aborted
    /\ events < max
    /\ s.nTile <= MaxLoads
    /\ Becomes(s)
    /\ last' = Last(op, button, FALSE)
    /\ events' = events + 1
    /\ UNCHANGED <<canvas, clicks, call, build>>

Input(op, button, s) == InputWithin(MaxEvents, op, button, s)

Control(op, s) ==
    /\ ~aborted
    /\ clicks < MaxClicks
    /\ Becomes(s)
    /\ last' = Last(op, "NoButton", FALSE)
    /\ clicks' = clicks + 1
    /\ UNCHANGED <<canvas, events, buttons, call, build>>

Internal(op, null, s) ==
    /\ ~aborted
    /\ s.nTile <= MaxLoads
    /\ Becomes(s)
    /\ last' = Last(op, "NoButton", null)
    /\ UNCHANGED <<canvas, events, clicks, buttons, call, build>>

MousePressWithin(max) ==
    \E button \in Buttons \ buttons, pos \in PressPositions :
        /\ InputWithin(max, "mousePressEvent", button,
                       mousePressEvent(Now, button, pos))
        /\ buttons' = buttons \cup {button}

MouseMoveWithin(max) ==
    \E pos \in MovePositions :
        /\ InputWithin(max, "mouseMoveEvent", "NoButton", mouseMoveEvent(Now, pos))
        /\ UNCHANGED buttons

MouseReleaseWithin(max) ==
    \E button \in buttons, pos \in MovePositions :
        /\ InputWithin(max, "mouseReleaseEvent", button,
                       mouseReleaseEvent(Now, button, pos))
        /\ buttons' = buttons \ {button}

MousePress == MousePressWithin(MaxEvents)
MouseMove == MouseMoveWithin(MaxEvents)
MouseRelease == MouseReleaseWithin(MaxEvents)

Wheel ==
    \E up \in BOOLEAN :
        /\ Input("wheelEvent", "NoButton", wheelEvent(Now, up))
        /\ UNCHANGED buttons

ClickFitToExtent ==
    /\ Input("fit_to_extent", "NoButton", fit_to_extent(Now))
    /\ UNCHANGED buttons

ClickClearSelectionWithin(max) ==
    /\ InputWithin(max, "clear_selection", "NoButton",
                   MainWindow_clear_selection(Now))
    /\ UNCHANGED buttons

ClickClearSelection == ClickClearSelectionWithin(MaxEvents)

ToggleBasemap ==
    \E show \in BOOLEAN :
        /\ Input("on_basemap_toggled", "NoButton", on_basemap_toggled(Now, show))
        /\ UNCHANGED buttons

ToggleHillshade ==
    \E show \in BOOLEAN :
        /\ Input("on_hillshade_toggled", "NoButton", on_hillshade_toggled(Now, show))
        /\ UNCHANGED buttons

SlideOpacity ==
    \E value \in SliderValues :
        Control("on_opacity_changed", on_opacity_changed(Now, value))

SelectCellSize ==
    \E c \in CellSizes :
        Control("on_cell_size_changed", [Now EXCEPT !.win.cell_size = c])

EditOutputPath ==
    \E path \in {"", "out.tif"} :
        Control("output_path_edit", [Now EXCEPT !.win.output_path = path])

\* The button is clicked (or activated from the keyboard) only when enabled.
ClickDownload ==
    /\ window.download_btn
    /\ Control("start_download", start_download(Now, None))

\* ServiceInfoLoader.run emits loaded or error, once.
ServiceInfoLoaded ==
    /\ window.service_loader = "running"
    /\ \E extent \in ServiceExtents :
           Input("on_service_info_loaded", "NoButton",
                 on_service_info_loaded(Now, extent))
    /\ UNCHANGED buttons

ServiceInfoError ==
    /\ window.service_loader = "running"
    /\ Input("on_service_info_error", "NoButton", on_service_info_error(Now))
    /\ UNCHANGED buttons

TimerLoadMap ==
    /\ timers > 0
    /\ Internal("load_map", FALSE, load_map([Now EXCEPT !.timers = @ - 1]))

\* MapTileLoader.run / BasemapLoader.run: one request, then one tileLoaded
\* signal, with the image or, when anything raised, with a null pixmap.
run(s, t, ok) ==
    IF t.kind = "tile"
    THEN post(s, Event("tileLoaded", "tile", t.id,
                       IF ok THEN Pixmap(t.size[1], t.size[2], t.bbox, t.id)
                       ELSE NullPixmap,
                       t.bbox))
    ELSE post(s, Event("tileLoaded", "basemap", 0,
                       IF ok THEN Pixmap(t.size[1], t.size[2], None, 0)
                       ELSE NullPixmap,
                       None))

\* A loader thread runs to its end: run() returns and QThread emits finished().
LoaderRun ==
    \E t \in threads, ok \in BOOLEAN :
        Internal("run", ~ok,
            post(run([Now EXCEPT !.threads = @ \ {t}], t, ok),
                 Event("finished", t.kind, 0, NullPixmap, None)))

\* Slots in which the finished signal of a loader does not release the lock.
slot_keeps_lock(s, ev) ==
    IF ev.sig = "tileLoaded" /\ ev.kind = "tile"
    THEN on_tile_loaded(s, ev.pixmap, ev.bbox)
    ELSE IF ev.sig = "tileLoaded"
    THEN on_basemap_loaded(s, ev.pixmap)
    ELSE on_loader_finished(s)

slot(s, ev) ==
    IF ev.sig = "tileLoaded" /\ ev.kind = "tile"
    THEN on_tile_loaded(s, ev.pixmap, ev.bbox)
    ELSE IF ev.sig = "tileLoaded"
    THEN on_basemap_loaded(s, ev.pixmap)
    ELSE IF ev.kind = "tile"
    THEN [on_loader_finished(s) EXCEPT !.mw._loading = FALSE]
    ELSE [s EXCEPT !.mw._loading = FALSE]

slotName(ev) ==
    IF ev.sig = "tileLoaded" /\ ev.kind = "tile" THEN "on_tile_loaded"
    ELSE IF ev.sig = "tileLoaded" THEN "on_basemap_loaded"
    ELSE "finished"

\* What the window shows after the handlers have brought the program to s
\* and one paint event has been handled: <<program state, canvas>>.
painted(s, was, ops) ==
    IF ops = ZeroDivisionError
    THEN <<[s EXCEPT !.aborted = TRUE], was>>
    ELSE <<s, ops>>

\* on_tile_loaded ends with repaint(), which paints at once.
deliver(s, ev, was) ==
    IF slotName(ev) = "on_tile_loaded" /\ ~isNull(ev.pixmap)
    THEN painted(s, was, paintEvent(s.mw))
    ELSE <<s, was>>

Shows(pair) == Becomes(pair[1]) /\ canvas' = pair[2]

\* The GUI thread's event loop delivers the oldest posted signal.
Deliver ==
    /\ queue # <<>>
    /\ ~aborted
    /\ Shows(deliver(slot([Now EXCEPT !.queue = Tail(@)], Head(queue)),
                     Head(queue), canvas))
    /\ last' = Last(slotName(Head(queue)), "NoButton",
                    Head(queue).sig = "tileLoaded" /\ isNull(Head(queue).pixmap))
    /\ UNCHANGED <<events, clicks, buttons, call, build>>

\* The event loop delivers a paint event (after update(), or an expose).
Paint ==
    /\ ~aborted
    /\ events < MaxEvents
    /\ Shows(painted(Now, canvas, paintEvent(map_widget)))
    /\ last' = Last("paintEvent", "NoButton", FALSE)
    /\ events' = events + 1
    /\ UNCHANGED <<clicks, buttons, call, build>>

DownloadStatus ==
    /\ window.downloader_running
    /\ Internal("on_status_update", FALSE,
                [on_status_update(Now, "Downloading...") EXCEPT !.win.progress_bar = 50])

DownloadFinished ==
    /\ window.downloader_running
    /\ Internal("on_download_finished", FALSE, on_download_finished(Now))

DownloadError ==
    /\ window.downloader_running
    /\ Internal("on_download_error", FALSE, on_download_error(Now))

(***************************************************************************)
(* Spec: the map view.  The mouse, the map controls, the service-info       *)
(* reply, the load timers, the loader threads and the event loop.           *)
(***************************************************************************)
Next ==
    \/ MousePress \/ MouseMove \/ MouseRelease \/ Wheel
    \/ ClickFitToExtent \/ ClickClearSelection
    \/ ToggleBasemap \/ ToggleHillshade
    \/ ServiceInfoLoaded \/ ServiceInfoError \/ TimerLoadMap
    \/ LoaderRun \/ Deliver

Spec == Init /\ [][Next]_vars

\* The event loop takes the oldest posted signal off its queue.  The steps of
\* Next that do so are the steps of Deliver, and Deliver can be taken
\* whenever the queue holds a signal and the process lives.
EventLoop ==
    /\ queue # <<>>
    /\ ~aborted
    /\ queue' = Tail(queue)

\* SpecLive: Spec with its scheduling.  A started QThread is scheduled by
\* the operating system, so its run() comes to an end, and the event loop of
\* the GUI thread, as long as the process lives, delivers the signals posted
\* to it.
SpecLive == Spec /\ WF_vars(LoaderRun) /\ WF_queue(EventLoop)

(***************************************************************************)
(* SpecDownload: selecting an area and downloading it.                      *)
(***************************************************************************)
NextDownload ==
    \/ MousePress \/ MouseMove \/ MouseRelease
    \/ TimerLoadMap \/ LoaderRun \/ Deliver
    \/ SelectCellSize \/ EditOutputPath \/ ClickDownload
    \/ DownloadStatus \/ DownloadFinished \/ DownloadError

SpecDownload == Init /\ [][NextDownload]_vars

(***************************************************************************)
(* SpecOneShot: downloads while the user goes on selecting, at the cell     *)
(* size the window starts with.                                             *)
(***************************************************************************)
NextOneShot ==
    \/ MousePressWithin(MaxDragEvents)
    \/ MouseMoveWithin(MaxDragEvents)
    \/ MouseReleaseWithin(MaxDragEvents)
    \/ ClickClearSelectionWithin(MaxDragEvents)
    \/ TimerLoadMap \/ LoaderRun \/ Deliver
    \/ EditOutputPath \/ ClickDownload
    \/ DownloadFinished \/ DownloadError

SpecOneShot == Init /\ [][NextOneShot]_vars

(***************************************************************************)
(* SpecPaint: what a repaint draws.                                         *)
(***************************************************************************)
NextPaint ==
    \/ MousePress \/ MouseMove \/ MouseRelease
    \/ TimerLoadMap \/ LoaderRun \/ Deliver
    \/ ToggleBasemap \/ SlideOpacity \/ Paint

SpecPaint == Init /\ [][NextPaint]_vars

(***************************************************************************)
(* SpecCoord: the coordinate mapper and the selection geometry, called on   *)
(* a MapWidget that shows a tile: loaded for the extent at one of           *)
(* LoadedSizes and, where that is not the widget's size, scaled by          *)
(* resizeEvent; <<0, 0>> stands for no tile (a null pixmap).                *)
(***************************************************************************)
LoadedSizes == {<<0, 0>>, <<WidgetW, WidgetH>>, <<WidgetW + 1, WidgetH>>,
                <<WidgetW, WidgetH + 1>>}
CoordExtents == {DefaultExtent, FBox(0, 0, 1, 1), FBox(-3, -3, -2, -2)}
Points == (-1 .. WidgetW) \X (-1 .. WidgetH)

InitCoord ==
    /\ \E extent \in CoordExtents, size \in LoadedSizes :
           map_widget =
               resizeEvent([MapWidget__init__(extent, TRUE)
                               EXCEPT !.current_pixmap =
                                          Pixmap(size[1], size[2], extent, 1),
                                      !.map_loaded = TRUE,
                                      !.loader = 1])
    /\ window = MainWindow__init__(DefaultExtent)
    /\ threads = {}
    /\ queue = <<>>
    /\ timers = 0
    /\ aborted = FALSE
    /\ nTile = 1
    /\ nBasemap = 1
    /\ emitted = <<>>
    /\ last = Last("__init__", "NoButton", FALSE)
    /\ canvas = <<>>
    /\ events = 0
    /\ clicks = 0
    /\ buttons = {}
    /\ call = NoCall
    /\ build = None

\* One call is made on each widget.
Returns(op, args, result) ==
    /\ call = NoCall
    /\ call' = [op |-> op, args |-> args, result |-> result]
    /\ last' = Last(op, "NoButton", FALSE)
    /\ UNCHANGED <<canvas, events, clicks, buttons, build>>

CallScreenToWorld ==
    \E p \in Points :
        /\ Returns("screen_to_world", <<p>>, screen_to_world(map_widget, p))
        /\ Becomes(Now)

\* world_to_screen(*screen_to_world(p))
round_trip(w, world) ==
    IF world = None THEN None ELSE world_to_screen(w, world[1], world[2])

CallWorldToScreen ==
    \E p \in Points :
        /\ screen_to_world(map_widget, p) # None
        /\ Returns("world_to_screen", <<p>>,
                   round_trip(map_widget, screen_to_world(map_widget, p)))
        /\ Becomes(Now)

\* The left button goes down on p and the mouse is dragged to q.
Dragged(s) ==
    /\ Returns("get_selection_bbox",
               <<s.mw.selection_start, s.mw.selection_end>>,
               get_selection_bbox(s.mw))
    /\ Becomes(s)

CallGetSelectionBbox ==
    \E p \in Points, q \in Points :
        Dragged(mouseMoveEvent(mousePressEvent(Now, "LeftButton", p), q))

NextCoord == CallScreenToWorld \/ CallWorldToScreen \/ CallGetSelectionBbox

SpecCoord == InitCoord /\ [][NextCoord]_vars

(***************************************************************************)
(* SpecStartup: the window from its construction.  MainWindow.__init__ runs *)
(* init_ui, which leaves map_widget None and nothing connected to a map,    *)
(* and then load_service_info; the event loop starts after that, with the   *)
(* controls and the reply of the service-info thread.                       *)
(***************************************************************************)
init_ui(service_extent) ==
    [MainWindow__init__(service_extent)
        EXCEPT !.map_widget = "None",
               !.selectionChanged_connected = FALSE,
               !.selectionCompleted_connected = FALSE,
               !.service_loader = "none"]

InitStartup ==
    /\ map_widget = None
    /\ window = init_ui(DefaultExtent)
    /\ threads = {}
    /\ queue = <<>>
    /\ timers = 0
    /\ aborted = FALSE
    /\ nTile = 0
    /\ nBasemap = 0
    /\ emitted = <<>>
    /\ last = Last("init_ui", "NoButton", FALSE)
    /\ canvas = <<>>
    /\ events = 0
    /\ clicks = 0
    /\ buttons = {}
    /\ call = NoCall
    /\ build = None

LoadServiceInfo ==
    /\ window.service_loader = "none"
    /\ Internal("load_service_info", FALSE, load_service_info(Now))

\* The event loop runs once the window is constructed.
Constructed == window.service_loader # "none"

NextStartup ==
    \/ LoadServiceInfo
    \/ ServiceInfoLoaded
    \/ ServiceInfoError
    \/ Constructed /\ ToggleBasemap
    \/ Constructed /\ ToggleHillshade
    \/ Constructed /\ SlideOpacity
    \/ Constructed /\ ClickFitToExtent
    \/ Constructed /\ ClickClearSelection
    \/ Constructed /\ SelectCellSize
    \/ Constructed /\ EditOutputPath

SpecStartup == InitStartup /\ [][NextStartup]_vars

(***************************************************************************)
(* SpecBuild: the macOS build script (src/build_mac_app.py).  build is the  *)
(* run of main():                                                           *)
(*   pc, status     where main is, and the exit status (-1 while it runs)   *)
(*   platform, args sys.platform and the parsed command line                *)
(*   icns, source   media/CCOM.icns exists; CCOM.png or CCOM.ico exists     *)
(*   returned       what the last convert_icon_to_icns returned             *)
(*   icon_path      main's icon_path                                        *)
(*   response       the answer to "Continue without icon?"                  *)
(*   ran            the steps run so far, each with its success             *)
(*   pyinstaller_icon   the PyInstaller command has an --icon argument      *)
(*   resources_icon     CCOM.icns is in the bundle's Resources directory    *)
(***************************************************************************)
Steps ==
    <<"platform_check", "check_prerequisites", "clean_build_artifacts",
      "convert_icon_to_icns", "build_app", "create_app_bundle",
      "fix_permissions", "create_dmg">>

Args == [icon_only : BOOLEAN, no_icon : BOOLEAN, create_dmg : BOOLEAN,
         clean : BOOLEAN]

Run(platform, args, icns, source) ==
    [pc |-> "platform_check", status |-> -1, platform |-> platform,
     args |-> args, icns |-> icns, source |-> source, returned |-> None,
     icon_path |-> None, response |-> "", ran |-> <<>>,
     pyinstaller_icon |-> FALSE, resources_icon |-> FALSE]

\* MEDIA_DIR / "CCOM.icns"
icon_icns == <<"media", "CCOM.icns">>

step(b, name, ok) == [b EXCEPT !.ran = Append(@, [step |-> name, ok |-> ok])]

\* sys.exit(status), or main returning (status 0).
exit(b, status) == [b EXCEPT !.pc = "exit", !.status = status]

goto(b, pc) == [b EXCEPT !.pc = pc]

\* overwrite: the answer to "Overwrite?" is y; converts: sips and iconutil
\* succeed.
convert_icon_to_icns(b, overwrite, converts) ==
    IF b.icns /\ ~overwrite THEN [b EXCEPT !.returned = icon_icns]
    ELSE IF ~b.source THEN [b EXCEPT !.returned = None]
    ELSE IF converts THEN [b EXCEPT !.returned = icon_icns, !.icns = TRUE]
    ELSE [b EXCEPT !.returned = None]

\* The command has --icon: if icon_path and not no_icon.
build_app(b, icon_path, no_icon) ==
    [b EXCEPT !.pyinstaller_icon = (icon_path # None /\ ~no_icon)]

\* source_dir: PyInstaller's output directory exists; the result is whether
\* create_app_bundle returns True.
create_app_bundle(b, source_dir) ==
    IF ~source_dir THEN b
    ELSE IF b.icns THEN [b EXCEPT !.resources_icon = TRUE]
    ELSE b

\* main, from one step to the next.
main_platform_check(b) ==
    IF b.platform # "darwin" THEN exit(step(b, "platform_check", FALSE), 1)
    ELSE IF b.args.icon_only
    THEN goto(step(b, "platform_check", TRUE), "icon_only")
    ELSE goto(step(b, "platform_check", TRUE), "check_prerequisites")

main_icon_only(b, overwrite, converts) ==
    Bind(convert_icon_to_icns(b, overwrite, converts), LAMBDA c :
        exit(step(c, "convert_icon_to_icns", c.returned # None), 0))

main_check_prerequisites(b, ok) ==
    IF ~ok THEN exit(step(b, "check_prerequisites", FALSE), 1)
    ELSE goto(step(b, "check_prerequisites", TRUE), "clean_build_artifacts")

main_clean(b) ==
    IF b.args.clean
    THEN goto(step(b, "clean_build_artifacts", TRUE), "convert_icon_to_icns")
    ELSE goto(b, "convert_icon_to_icns")

main_convert_icon(b, overwrite, converts, response) ==
    IF b.args.no_icon THEN goto(b, "build_app")
    ELSE Bind(convert_icon_to_icns(b, overwrite, converts), LAMBDA c :
             IF c.returned = None
             THEN IF response # "y"
                  THEN exit(step([c EXCEPT !.response = response],
                                 "convert_icon_to_icns", FALSE), 1)
                  ELSE goto(step([c EXCEPT !.response = response],
                                 "convert_icon_to_icns", FALSE), "build_app")
             ELSE goto(step([c EXCEPT !.icon_path = c.returned],
                            "convert_icon_to_icns", TRUE), "build_app"))

\* A main that goes on to the bundle after a failed build.
main_build_app_goes_on(b, ok) ==
    goto(step(build_app(b, b.icon_path, b.args.no_icon), "build_app", ok),
         "create_app_bundle")

main_build_app(b, ok) ==
    IF ~ok
    THEN exit(step(build_app(b, b.icon_path, b.args.no_icon),
                   "build_app", FALSE), 1)
    ELSE goto(step(build_app(b, b.icon_path, b.args.no_icon),
                   "build_app", TRUE), "create_app_bundle")

main_create_app_bundle(b, source_dir) ==
    IF ~source_dir
    THEN exit(step(create_app_bundle(b, FALSE), "create_app_bundle", FALSE), 1)
    ELSE goto(step(create_app_bundle(b, TRUE), "create_app_bundle", TRUE),
              "fix_permissions")

\* ok: xattr succeeds.
main_fix_permissions(b, ok) ==
    goto(step(b, "fix_permissions", ok), "create_dmg")

main_create_dmg(b, ok) ==
    IF b.args.create_dmg THEN exit(step(b, "create_dmg", ok), 0)
    ELSE exit(b, 0)

Platforms == {"darwin", "linux"}
Responses == {"y", "n"}

\* The window is not part of a build; its variables stay as they start.
InitBuild ==
    /\ Hosted
    /\ \E platform \in Platforms, args \in Args, icns \in BOOLEAN,
          source \in BOOLEAN :
           build = Run(platform, args, icns, source)

\* The variables of the window.
gui == <<map_widget, window, threads, queue, timers, aborted, nTile, nBasemap,
         emitted, last, canvas, events, clicks, buttons, call>>

PlatformCheck ==
    /\ build.pc = "platform_check"
    /\ build' = main_platform_check(build)
    /\ UNCHANGED gui

IconOnly ==
    /\ build.pc = "icon_only"
    /\ \E overwrite \in BOOLEAN, converts \in BOOLEAN :
           build' = main_icon_only(build, overwrite, converts)
    /\ UNCHANGED gui

CheckPrerequisites ==
    /\ build.pc = "check_prerequisites"
    /\ \E ok \in BOOLEAN : build' = main_check_prerequisites(build, ok)
    /\ UNCHANGED gui

CleanBuildArtifacts ==
    /\ build.pc = "clean_build_artifacts"
    /\ build' = main_clean(build)
    /\ UNCHANGED gui

ConvertIcon ==
    /\ build.pc = "convert_icon_to_icns"
    /\ \E overwrite \in BOOLEAN, converts \in BOOLEAN, response \in Responses :
           build' = main_convert_icon(build, overwrite, converts, response)
    /\ UNCHANGED gui

BuildApp ==
    /\ build.pc = "build_app"
    /\ \E ok \in BOOLEAN : build' = main_build_app(build, ok)
    /\ UNCHANGED gui

CreateAppBundle ==
    /\ build.pc = "create_app_bundle"
    /\ \E source_dir \in BOOLEAN :
           build' = main_create_app_bundle(build, source_dir)
    /\ UNCHANGED gui

FixPermissions ==
    /\ build.pc = "fix_permissions"
    /\ \E ok \in BOOLEAN : build' = main_fix_permissions(build, ok)
    /\ UNCHANGED gui

CreateDmg ==
    /\ build.pc = "create_dmg"
    /\ \E ok \in BOOLEAN : build' = main_create_dmg(build, ok)
    /\ UNCHANGED gui

NextBuild ==
    \/ PlatformCheck \/ IconOnly \/ CheckPrerequisites \/ CleanBuildArtifacts
    \/ ConvertIcon \/ BuildApp \/ CreateAppBundle \/ FixPermissions
    \/ CreateDmg

SpecBuild == InitBuild /\ [][NextBuild]_vars

(***************************************************************************)
(* Properties.                                                              *)
(***************************************************************************)
Quiescent == threads = {} /\ queue = <<>>

\* C1: whenever no loader thread runs and no result waits for delivery, a
\* displayed bathymetry pixmap was fetched for the bounding box that is the
\* extent.
C1_ExtentIsDisplayedBox ==
    (Quiescent /\ ~isNull(map_widget.current_pixmap))
        => map_widget.extent = map_widget.current_pixmap.bbox

\* The step is a pan that moved the extent, a wheel zoom over a displayed
\* pixmap, or a left release that emitted selectionCompleted.
ViewChange ==
    \/ last'.op = "mouseMoveEvent" /\ map_widget'.extent # map_widget.extent
    \/ last'.op = "wheelEvent" /\ ~isNull(map_widget.current_pixmap)
    \/ /\ last'.op = "mouseReleaseEvent"
       /\ \E i \in DOMAIN emitted' : emitted'[i][1] = "selectionCompleted"

\* C2: every pan step that moves the extent, every wheel zoom over a
\* displayed pixmap and every completed selection starts one bathymetry tile
\* fetch, and its bbox is the extent the step has set.
C2_ViewChangeStartsFetch ==
    [][ViewChange =>
          /\ nTile' = nTile + 1
          /\ \E t \in threads' : /\ t.kind = "tile"
                                 /\ t.id = nTile'
                                 /\ t.bbox = map_widget'.extent]_vars

LoadMapCallers ==
    {"load_map", "mouseMoveEvent", "mouseReleaseEvent", "wheelEvent",
     "fit_to_extent", "on_basemap_toggled", "on_hillshade_toggled"}

\* C4: a step starts loaders only by a load_map call made while _loading is
\* False, and then exactly one MapTileLoader and one BasemapLoader if
\* show_basemap is set, none otherwise; a loader that runs leaves with one
\* tileLoaded signal; the delivery of a result, failed or not, starts no
\* loader.
C4_NoRetry ==
    [][/\ nTile' \in {nTile, nTile + 1}
       /\ nBasemap' \in {nBasemap, nBasemap + 1}
       /\ nTile' = nTile => nBasemap' = nBasemap /\ threads' \subseteq threads
       /\ nTile' = nTile + 1 =>
              /\ last'.op \in LoadMapCallers
              /\ ~map_widget._loading
              /\ (nBasemap' = nBasemap + 1) <=> map_widget'.show_basemap
              /\ Cardinality(threads' \ threads) = nTile' - nTile + nBasemap' - nBasemap
       /\ last'.op = "run" =>
              /\ Cardinality(threads') = Cardinality(threads) - 1
              /\ Len(queue') = Len(queue) + 2
              /\ queue'[Len(queue) + 1].sig = "tileLoaded"
              /\ queue'[Len(queue) + 2].sig = "finished"
       /\ last'.op \in {"on_tile_loaded", "on_basemap_loaded", "finished"} =>
              nTile' = nTile /\ nBasemap' = nBasemap]_vars

\* The one tile fetch started has failed, its null pixmap has been delivered
\* and no loader runs.
C4_FailedFetchDelivered ==
    /\ last.op = "on_tile_loaded" /\ last.null
    /\ threads = {}
    /\ nTile = 1

\* C5: a delivered tile result that changes current_pixmap or extent comes
\* from a fetch started after the one displayed, so that once the result of
\* the latest fetch is displayed no result of an earlier fetch replaces it.
C5_LatestWins ==
    [][(/\ last'.op = "on_tile_loaded"
        /\ \/ map_widget'.current_pixmap # map_widget.current_pixmap
           \/ map_widget'.extent # map_widget.extent)
          => /\ Head(queue).id > map_widget.current_pixmap.id
             /\ map_widget'.current_pixmap.id = Head(queue).id]_vars

\* The result of the second fetch, the latest started, has replaced the
\* display.
C5_LatestDisplayed ==
    /\ last.op = "on_tile_loaded" /\ ~last.null
    /\ nTile >= 2
    /\ map_widget.current_pixmap.id = nTile

\* The display and the selection state of the MapWidget.
Display(w) ==
    <<w.current_pixmap, w.basemap_pixmap, w.extent, w.selection_start,
      w.selection_end, w.is_selecting, w.selected_bbox_world>>

\* C6: a loader whose run raises emits tileLoaded once, with a null pixmap,
\* and on_tile_loaded and on_basemap_loaded given a null pixmap change
\* neither current_pixmap, basemap_pixmap, extent nor the selection state.
C6_FailedFetchKeepsDisplay ==
    [][/\ (last'.op = "run" /\ last'.null) =>
              /\ Len(queue') = Len(queue) + 2
              /\ queue'[Len(queue) + 1].sig = "tileLoaded"
              /\ isNull(queue'[Len(queue) + 1].pixmap)
              /\ queue'[Len(queue) + 2].sig = "finished"
       /\ (last'.op \in {"on_tile_loaded", "on_basemap_loaded"} /\ last'.null) =>
              /\ Display(map_widget') = Display(map_widget)
              /\ canvas' = canvas]_vars

\* A failed tile fetch has been delivered while a pixmap was displayed.
C6_FailedFetchOverDisplay ==
    /\ last.op = "on_tile_loaded" /\ last.null
    /\ ~isNull(map_widget.current_pixmap)

InExtent(w, world) ==
    /\ FLe(w.extent[1], world[1]) /\ FLe(world[1], w.extent[3])
    /\ FLe(w.extent[2], world[2]) /\ FLe(world[2], w.extent[4])

\* C7: screen_to_world(p) is None exactly when the pixmap is null or p is
\* outside the centred pixmap rectangle; otherwise it is a point of the
\* extent, with the left edge at xmin and the top edge at ymax, and
\* world_to_screen(screen_to_world(p)) is p.
C7_RoundTrip ==
    /\ call.op = "screen_to_world" =>
           /\ (call.result = None) <=>
                  \/ isNull(map_widget.current_pixmap)
                  \/ ~rectContains(pixmap_rect(map_widget), call.args[1])
           /\ call.result # None =>
                  /\ InExtent(map_widget, call.result)
                  /\ call.args[1][1] = pixmap_rect(map_widget)[1] =>
                         call.result[1] = map_widget.extent[1]
                  /\ call.args[1][2] = pixmap_rect(map_widget)[2] =>
                         call.result[2] = map_widget.extent[4]
    /\ call.op = "world_to_screen" => call.result = call.args[1]

\* C8: for selection_start and selection_end inside the displayed pixmap
\* rectangle, the pixel (0, 0) included, get_selection_bbox is a box with
\* xmin <= xmax and ymin <= ymax inside the extent, and the same box when
\* start and end are swapped.
C8_SelectionBbox ==
    (/\ call.op = "get_selection_bbox"
     /\ ~isNull(map_widget.current_pixmap)
     /\ rectContains(pixmap_rect(map_widget), call.args[1])
     /\ rectContains(pixmap_rect(map_widget), call.args[2]))
        => /\ call.result # None
           /\ FLe(call.result[1], call.result[3])
           /\ FLe(call.result[2], call.result[4])
           /\ InExtent(map_widget, <<call.result[1], call.result[2]>>)
           /\ InExtent(map_widget, <<call.result[3], call.result[4]>>)
           /\ call.result =
                  get_selection_bbox(
                      [map_widget EXCEPT !.selection_start = call.args[2],
                                         !.selection_end = call.args[1]])

\* The bounding box start_download finds, None if there is none.
AvailableBbox ==
    IF window.selected_bbox # None THEN window.selected_bbox
    ELSE get_selection_bbox(map_widget)

\* int(width / cell_size) or int(height / cell_size) is above 14000.
TooLarge(bbox, cell_size) ==
    \/ FInt(FDiv(FSub(bbox[3], bbox[1]), FromInt(cell_size))) > 14000
    \/ FInt(FDiv(FSub(bbox[4], bbox[2]), FromInt(cell_size))) > 14000

Downloadable ==
    /\ AvailableBbox # None
    /\ window.output_path # ""
    /\ ~TooLarge(AvailableBbox, window.cell_size)

\* C9: a downloader is created and started only by start_download, and only
\* with a bounding box, a non-empty output path and at most 14000 pixels
\* each way; a start_download without one of these creates no downloader and
\* leaves the download button, the progress bar and the status label as
\* they are.
C9_DownloadGuards ==
    [][/\ window'.downloader # window.downloader =>
              last'.op = "start_download" /\ Downloadable
       /\ (last'.op = "start_download" /\ ~Downloadable) => window' = window
       /\ (last'.op = "start_download" /\ Downloadable) =>
              /\ window'.downloader =
                     <<AvailableBbox, window.output_path, window.cell_size>>
              /\ window'.downloader_running]_vars

\* start_download has refused a selection with an output path because it is
\* too large.
C9_RefusedTooLarge ==
    /\ last.op = "start_download"
    /\ window.output_path # ""
    /\ AvailableBbox # None
    /\ TooLarge(AvailableBbox, window.cell_size)
    /\ window.downloader = None

Layer(what) ==
    CASE what \in {"basemap", "background"} -> 1
      [] what \in {"bathymetry", "placeholder"} -> 2
      [] what = "selected_bbox" -> 3
      [] what = "selection_rect" -> 4

\* The state follows a repaint of the widget as it is.
Repainted ==
    /\ ~aborted
    /\ \/ last.op = "paintEvent"
       \/ last.op = "on_tile_loaded" /\ ~last.null

\* C10: a repaint draws first the basemap, if show_basemap is set and a
\* basemap pixmap is loaded, and the background fill otherwise, then the
\* bathymetry pixmap with bathymetry_opacity, then the completed selection,
\* then the drag rectangle, and both overlays with opacity 1.0.
C10_PaintOrder ==
    Repainted =>
        /\ Len(canvas) >= 1
        /\ canvas[1] =
               <<IF map_widget.show_basemap /\ ~isNull(map_widget.basemap_pixmap)
                 THEN "basemap" ELSE "background", 100>>
        /\ \A i, j \in DOMAIN canvas :
               i < j => Layer(canvas[i][1]) < Layer(canvas[j][1])
        /\ ~isNull(map_widget.current_pixmap) <=>
               \E i \in DOMAIN canvas :
                   canvas[i] = <<"bathymetry", map_widget.bathymetry_opacity>>
        /\ \A i \in DOMAIN canvas :
               canvas[i][1] \in {"selected_bbox", "selection_rect"} =>
                   canvas[i][2] = 100

\* A repaint has drawn the bathymetry pixmap with an opacity below 1.0 and a
\* selection overlay over it.
C10_OverlayOverBathymetry ==
    /\ Repainted
    /\ \E i, j \in DOMAIN canvas :
           /\ canvas[i][1] = "bathymetry" /\ canvas[i][2] < 100
           /\ canvas[j][1] \in {"selected_bbox", "selection_rect"}

\* C11: once load_service_info has run with the default service extent,
\* the window has a MapWidget, and its selectionChanged and
\* selectionCompleted signals are connected to the window's handlers.
C11_StartupWiresMap ==
    window.service_loader # "none" =>
        /\ window.map_widget # "None"
        /\ map_widget # None
        /\ window.selectionChanged_connected
        /\ window.selectionCompleted_connected

StepIndex(name) == CHOOSE i \in DOMAIN Steps : Steps[i] = name

\* The steps whose failure main answers with sys.exit(1).
Fatal == {"platform_check", "check_prerequisites", "build_app", "create_app_bundle"}

\* The steps run so far are in the script's order, clean and DMG creation
\* run only with their options, a failed platform check, prerequisites
\* check, build or bundle creation is the last step and the exit status is
\* 1, and with --icon-only only the platform check and the icon conversion
\* run.
OrderAndExits ==
    /\ \A i, j \in DOMAIN build.ran :
           i < j => StepIndex(build.ran[i].step) < StepIndex(build.ran[j].step)
    /\ \A i \in DOMAIN build.ran :
           /\ build.ran[i].step = "clean_build_artifacts" => build.args.clean
           /\ build.ran[i].step = "create_dmg" => build.args.create_dmg
           /\ (build.ran[i].step \in Fatal /\ ~build.ran[i].ok) =>
                  /\ i = Len(build.ran)
                  /\ build.pc = "exit"
                  /\ build.status = 1
           /\ build.args.icon_only =>
                  build.ran[i].step \in {"platform_check", "convert_icon_to_icns"}

C14_NoIconBuild ==
    build.args.no_icon =>
        /\ \A i \in DOMAIN build.ran : build.ran[i].step # "convert_icon_to_icns"
        /\ ~build.pyinstaller_icon
        /\ ~build.resources_icon

(***************************************************************************)
(* The load lock.                                                           *)
(***************************************************************************)
\* C15: in every reachable state, while a loader thread started by load_map
\* (tile or basemap) is still running, _loading is True, so that a load_map
\* called then is skipped.
C15_LoadingWhileRunning ==
    threads # {} => map_widget._loading

\* C16: a load_map call made while _loading is True is a pure no-op: it
\* starts no loader, terminates no loader and posts no signal, and it leaves
\* every attribute of the widget (extent, current_pixmap, basemap_pixmap,
\* map_loaded, _loading, the selection) as it was.  Checked for the call the
\* timers make and for load_map applied to every state reached.
C16_LockedLoadIsNoOp ==
    [][map_widget._loading =>
          /\ load_map(S) = S
          /\ last'.op = "load_map" =>
                 UNCHANGED <<map_widget, threads, queue, nTile, nBasemap>>]_vars

\* A timer has called load_map while the lock was held: the call is the last
\* thing that happened, the lock is held, and the tile loader of the latest
\* load is no longer running (a load_map that is not skipped leaves it
\* running).
C16_SkippedLoad ==
    /\ last.op = "load_map"
    /\ map_widget._loading
    /\ nTile >= 1
    /\ ~isRunning(S, "tile", nTile)

\* C17: the load lock is never held forever.  Whenever _loading is True
\* (load_map has set it), _loading becomes False again, given that every
\* started loader runs to its end or is terminated and that its finished
\* signal is delivered (SpecLive).  The one case left out is the one the
\* claim's assumption leaves out: the process has aborted while a loader was
\* running or a finished signal was waiting in the queue, and that signal
\* is never delivered.
C17_LockReleased ==
    map_widget._loading ~>
        \/ ~map_widget._loading
        \/ /\ aborted
           /\ \/ threads # {}
              \/ \E i \in DOMAIN queue : queue[i].sig = "finished"

\* The finished signal of a loader has just released the lock that a
\* load_map call had taken.
C17_Released ==
    /\ last.op = "finished"
    /\ ~map_widget._loading
    /\ nTile >= 1
    /\ ~aborted

\* The loader the widget holds for a kind of thread.
Held(mw, kind) == IF kind = "tile" THEN mw.loader ELSE mw.basemap_loader

\* At most one thread of each kind runs in s, and it is the loader the
\* widget holds, the one the next load_map will find running and terminate.
OneLoaderPerKind(s) ==
    \A t, u \in s.threads :
        /\ t.id = Held(s.mw, t.kind)
        /\ t.kind = u.kind => t = u

\* C18: at most one bathymetry tile loader and at most one basemap loader
\* started by load_map is running at any time: a load_map that starts new
\* loaders first terminates the loaders still running, so that none of them
\* runs on beside the new ones.  Checked in every state reached and for
\* load_map applied to every state reached.
C18_OneLoaderPerKind ==
    /\ OneLoaderPerKind(S)
    /\ OneLoaderPerKind(load_map(S))
    /\ ~map_widget._loading => load_map(S).threads \cap threads = {}

\* A second load_map has started its loaders beside none of the first: the
\* loaders running are those of the second call, and the finished signal of
\* the first call's tile loader, whose tile was never displayed, is waiting
\* in the queue.
C18_Replaced ==
    /\ nTile = 2
    /\ nBasemap = 2
    /\ Cardinality(threads) = 2
    /\ isRunning(S, "tile", 2)
    /\ isRunning(S, "basemap", 2)
    /\ queue = <<Event("finished", "tile", 0, NullPixmap, None)>>
    /\ isNull(map_widget.current_pixmap)

(***************************************************************************)
(* The mouse.                                                               *)
(***************************************************************************)
\* C19: is_selecting and is_panning are never both True, a selection is
\* started and ended only by the left button and panning is started and
\* ended only by the middle button.
C19_ButtonsApart ==
    [][/\ ~(map_widget'.is_selecting /\ map_widget'.is_panning)
       /\ map_widget'.is_selecting # map_widget.is_selecting =>
              last'.button = "LeftButton"
       /\ map_widget'.is_panning # map_widget.is_panning =>
              last'.button = "MiddleButton"]_vars

\* What a mouseReleaseEvent of the button at pos, handled in the state now
\* reached, must come to (r): it emits selectionCompleted only if the left
\* button ends an active drag whose start and end map to world coordinates,
\* and a left release that ends a drag with its start or its end outside
\* the pixmap emits nothing and leaves selected_bbox_world None.
ReleaseCompletes(r, button, pos) ==
    /\ (\E i \in DOMAIN r.emitted : r.emitted[i][1] = "selectionCompleted") =>
           /\ button = "LeftButton"
           /\ map_widget.is_selecting
           /\ screen_to_world(map_widget, map_widget.selection_start) # None
           /\ screen_to_world(map_widget, pos) # None
    /\ (/\ button = "LeftButton"
        /\ map_widget.is_selecting
        /\ \/ screen_to_world(map_widget, map_widget.selection_start) = None
           \/ screen_to_world(map_widget, pos) = None) =>
           /\ r.emitted = <<>>
           /\ r.mw.selected_bbox_world = None

\* C20: selectionCompleted is emitted only by a left-button release that
\* ends an active drag whose start and end both map to world coordinates;
\* the emission before it is a selectionChanged with the same bbox, and when
\* it is emitted selected_bbox_world is that bbox; a release whose start or
\* end lies outside the pixmap emits neither signal and leaves
\* selected_bbox_world None.
C20_SelectionCompleted ==
    /\ \A i \in DOMAIN emitted :
           emitted[i][1] = "selectionCompleted" =>
               /\ last.op = "mouseReleaseEvent"
               /\ last.button = "LeftButton"
               /\ i > 1
               /\ emitted[i - 1][1] = "selectionChanged"
               /\ emitted[i - 1][2] = emitted[i][2]
               /\ emitted[i][3] = emitted[i][2]
    /\ \A button \in Buttons, pos \in MovePositions :
           ReleaseCompletes(mouseReleaseEvent(Now, button, pos), button, pos)

\* A left release has ended a drag over the pixmap: selectionChanged and
\* selectionCompleted were emitted with the bbox of the drag.
C20_DragCompleted ==
    /\ last.op = "mouseReleaseEvent"
    /\ last.button = "LeftButton"
    /\ Len(emitted) = 2
    /\ emitted[2][1] = "selectionCompleted"
    /\ ~IsZeroBox(emitted[2][2])
    /\ map_widget.selected_bbox_world = emitted[2][2]
    /\ ~aborted

=============================================================================
